---- MODULE Spec2Model ----
(***************************************************************************)
(* Model of the checklist utilities of Pokemmo-raids.                      *)
(*                                                                         *)
(* transform_checklist.py is a single-pass batch transform: it loads       *)
(* data/checklist_xmas.json (category -> rows), classifies each row, and   *)
(* writes data/checklist_christmas_2024.json.  Python strings are modelled *)
(* as sequences of one-character strings so that strip, upper, lower,      *)
(* capitalize and substring search are computed, not assumed.              *)
(***************************************************************************)
EXTENDS Integers, Sequences, FiniteSets, TLC

(***************************************************************************)
(* Python str operations                                                   *)
(***************************************************************************)
LowerLetters == <<"a", "b", "c", "d", "e", "f", "g", "h", "i", "j", "k", "l", "m",
                  "n", "o", "p", "q", "r", "s", "t", "u", "v", "w", "x", "y", "z">>

UpperLetters == <<"A", "B", "C", "D", "E", "F", "G", "H", "I", "J", "K", "L", "M",
                  "N", "O", "P", "Q", "R", "S", "T", "U", "V", "W", "X", "Y", "Z">>

Whitespace == {" ", "\t", "\n"}

\* The empty str.
Empty == <<>>

\* c.isupper() for a single character
isupper(c) == \E i \in DOMAIN UpperLetters : UpperLetters[i] = c

upper_char(c) ==
    IF \E i \in DOMAIN LowerLetters : LowerLetters[i] = c
    THEN UpperLetters[CHOOSE i \in DOMAIN LowerLetters : LowerLetters[i] = c]
    ELSE c

lower_char(c) ==
    IF \E i \in DOMAIN UpperLetters : UpperLetters[i] = c
    THEN LowerLetters[CHOOSE i \in DOMAIN UpperLetters : UpperLetters[i] = c]
    ELSE c

\* s.upper()
upper(s) == [i \in 1..Len(s) |-> upper_char(s[i])]

\* s.lower()
lower(s) == [i \in 1..Len(s) |-> lower_char(s[i])]

\* s.capitalize(): first character upper-cased, the rest lower-cased
capitalize(s) ==
    [i \in 1..Len(s) |-> IF i = 1 THEN upper_char(s[i]) ELSE lower_char(s[i])]

RECURSIVE lstrip(_)
lstrip(s) ==
    IF s = <<>> THEN s
    ELSE IF Head(s) \in Whitespace THEN lstrip(Tail(s)) ELSE s

RECURSIVE rstrip(_)
rstrip(s) ==
    IF s = <<>> THEN s
    ELSE IF s[Len(s)] \in Whitespace THEN rstrip(SubSeq(s, 1, Len(s) - 1)) ELSE s

\* s.strip()
strip(s) == rstrip(lstrip(s))

\* Python's  sub in s
contains(sub, s) ==
    \E i \in 0..(Len(s) - Len(sub)) : SubSeq(s, i + 1, i + Len(sub)) = sub

\* sep.join(parts)
RECURSIVE join(_, _)
join(sep, parts) ==
    IF parts = <<>> THEN <<>>
    ELSE IF Len(parts) = 1 THEN parts[1]
    ELSE parts[1] \o sep \o join(sep, Tail(parts))

\* entry.get(key, "")
get(entry, key) == IF key \in DOMAIN entry THEN entry[key] ELSE Empty

(***************************************************************************)
(* String literals of the program                                          *)
(***************************************************************************)
LEVEL_80 == <<"L", "e", "v", "e", "l", " ", "8", "0">>
PHYS == <<"P", "H", "Y", "S">>
SPECIAL == <<"S", "P", "E", "C", "I", "A", "L">>
UTILITY == <<"U", "T", "I", "L", "I", "T", "Y">>
SUPPORT == <<"S", "U", "P", "P", "O", "R", "T">>
pat_bug_ice == <<"b", "u", "g", "/", "i", "c", "e">>
pat_level_80 == <<"l", "e", "v", "e", "l", " ", "8", "0">>
pat_needed == <<"n", "e", "e", "d", "e", "d">>
pat_pick == <<"p", "i", "c", "k">>
pat_choices == <<"c", "h", "o", "i", "c", "e", "s">>
pat_special == <<"s", "p", "e", "c", "i", "a", "l">>
pat_phys == <<"p", "h", "y", "s">>
pat_utility == <<"u", "t", "i", "l", "i", "t", "y">>
Fighting == <<"F", "i", "g", "h", "t", "i", "n", "g">>
Rock == <<"R", "o", "c", "k">>
Ghost == <<"G", "h", "o", "s", "t">>
Bug == <<"B", "u", "g">>
Flying == <<"F", "l", "y", "i", "n", "g">>
Psychic == <<"P", "s", "y", "c", "h", "i", "c">>
Steel == <<"S", "t", "e", "e", "l">>
Ground == <<"G", "r", "o", "u", "n", "d">>
Poison == <<"P", "o", "i", "s", "o", "n">>
Water == <<"W", "a", "t", "e", "r">>
Grass == <<"G", "r", "a", "s", "s">>
Electric == <<"E", "l", "e", "c", "t", "r", "i", "c">>
Ice == <<"I", "c", "e">>
Dragon == <<"D", "r", "a", "g", "o", "n">>
Dark == <<"D", "a", "r", "k">>
Fairy == <<"F", "a", "i", "r", "y">>
Normal == <<"N", "o", "r", "m", "a", "l">>
Utility == <<"U", "t", "i", "l", "i", "t", "y">>
Support == <<"S", "u", "p", "p", "o", "r", "t">>
NEEDED == <<"N", "E", "E", "D", "E", "D">>
PICK_5 == <<"P", "I", "C", "K", " ", "5">>
CommaSpace == <<",", " ">>
Space == <<" ">>

(***************************************************************************)
(* Pure helpers of transform_checklist.py                                  *)
(***************************************************************************)
\* Python's None, returned by normalize_usage when no role is derivable.
None == "None"

\* x in list
in_list(x, list) == \E i \in DOMAIN list : list[i] = x

\* Variant: the support markers are tested before the physical and special ones.
normalize_usage_support_first(usage_str) ==
    IF usage_str = Empty \/ usage_str = LEVEL_80 THEN None
    ELSE LET u == strip(upper(usage_str)) IN
         IF contains(PHYS, u) /\ contains(SPECIAL, u) THEN None
         ELSE IF contains(UTILITY, u) \/ contains(SUPPORT, u) THEN "Support"
         ELSE IF contains(PHYS, u) THEN "Physical"
         ELSE IF contains(SPECIAL, u) THEN "Special"
         ELSE None

\* Variant: a utility marker yields the role "Utility".
normalize_usage_utility(usage_str) ==
    IF usage_str = Empty \/ usage_str = LEVEL_80 THEN None
    ELSE LET u == strip(upper(usage_str)) IN
         IF contains(PHYS, u) /\ contains(SPECIAL, u) THEN None
         ELSE IF contains(PHYS, u) THEN "Physical"
         ELSE IF contains(SPECIAL, u) THEN "Special"
         ELSE IF contains(UTILITY, u) THEN "Utility"
         ELSE IF contains(SUPPORT, u) THEN "Support"
         ELSE None

normalize_usage(usage_str) ==
    IF usage_str = Empty \/ usage_str = LEVEL_80 THEN None
    ELSE LET u == strip(upper(usage_str)) IN
         IF contains(PHYS, u) /\ contains(SPECIAL, u) THEN None
         ELSE IF contains(PHYS, u) THEN "Physical"
         ELSE IF contains(SPECIAL, u) THEN "Special"
         ELSE IF contains(UTILITY, u) \/ contains(SUPPORT, u) THEN "Support"
         ELSE None

type_names == <<Fighting, Rock, Ghost, Bug, Flying, Psychic, Steel, Ground, Poison,
                Water, Grass, Electric, Ice, Dragon, Dark, Fairy, Normal>>

\* The for loop of extract_types from index i on, types being the list so far.
RECURSIVE extract_types_loop(_, _, _)
extract_types_loop(i, secondary, types) ==
    IF i > Len(type_names) THEN types
    ELSE LET type_name_i == type_names[i]
             hit == contains(lower(type_name_i), lower(secondary))
                    /\ ~in_list(type_name_i, types)
         IN  extract_types_loop(i + 1, secondary,
                                IF hit THEN Append(types, type_name_i) ELSE types)

extract_types(type_field, secondary_usage) ==
    IF secondary_usage # Empty /\ strip(secondary_usage) # Empty
    THEN extract_types_loop(1, strip(secondary_usage), <<>>)
    ELSE <<>>

move_keys == <<"Moves", "__2", "__3", "__4">>

\* The for loop of collect_moves from index i on.
RECURSIVE collect_moves_loop(_, _, _)
collect_moves_loop(i, entry, moves) ==
    IF i > Len(move_keys) THEN moves
    ELSE LET key == move_keys[i]
             keep == key \in DOMAIN entry /\ entry[key] # Empty
                     /\ strip(entry[key]) # Empty
         IN  collect_moves_loop(i + 1, entry,
                                IF keep THEN Append(moves, strip(entry[key])) ELSE moves)

collect_moves(entry) ==
    LET moves == collect_moves_loop(1, entry, <<>>)
    IN  IF moves # <<>> THEN join(CommaSpace, moves) ELSE Empty

invalid_patterns == <<pat_bug_ice, pat_level_80, pat_needed, pat_pick,
                      pat_choices, pat_special, pat_phys, pat_utility>>

\* Variant: the patterns are searched in the name as written, not lower-cased.
is_valid_pokemon_name_cased(name) ==
    IF name = Empty \/ strip(name) = Empty THEN FALSE
    ELSE LET n == strip(name) IN
         IF \E i \in DOMAIN invalid_patterns : contains(invalid_patterns[i], n)
         THEN FALSE
         ELSE IF ~isupper(n[1]) THEN FALSE
         ELSE TRUE

is_valid_pokemon_name(name) ==
    IF name = Empty \/ strip(name) = Empty THEN FALSE
    ELSE LET n == strip(name) IN
         IF \E i \in DOMAIN invalid_patterns : contains(invalid_patterns[i], lower(n))
         THEN FALSE
         ELSE IF ~isupper(n[1]) THEN FALSE
         ELSE TRUE

\* Lines 107-109: the primary type of a category.
category_type_name(type_key) ==
    LET type_name == capitalize(type_key)
    IN  IF type_name = Utility THEN Support ELSE type_name

\* Variant: the secondary types are appended without the membership test.
entry_types_unfiltered(type_name, entry) ==
    <<type_name>> \o extract_types(get(entry, "Fire"), get(entry, "Secondary Usage"))

\* Lines 136-138: the types list of a converted row.
entry_types(type_name, entry) ==
    LET types == <<type_name>>
        secondary_types == extract_types(get(entry, "Fire"), get(entry, "Secondary Usage"))
    IN  types \o SelectSeq(secondary_types, LAMBDA t : ~in_list(t, types))

\* Lines 147-153: the note taken from Secondary Usage.
secondary_note(entry) ==
    LET secondary_usage == strip(get(entry, "Secondary Usage"))
    IN  IF secondary_usage # Empty
           /\ ~\E i \in DOMAIN type_names :
                  contains(lower(type_names[i]), lower(secondary_usage))
        THEN secondary_usage
        ELSE Empty

\* Variant: the exclusion list is compared with the choices as written.
entry_notes_cased(entry) ==
    LET notes == secondary_note(entry)
        choices == strip(get(entry, "Choices"))
    IN  IF choices # Empty /\ ~in_list(choices, <<Empty, NEEDED, PICK_5>>)
        THEN strip(notes \o Space \o choices)
        ELSE notes

\* Lines 156-158: the Choices field appended to the notes.
entry_notes(entry) ==
    LET notes == secondary_note(entry)
        choices == strip(get(entry, "Choices"))
    IN  IF choices # Empty /\ ~in_list(upper(choices), <<Empty, NEEDED, PICK_5>>)
        THEN strip(notes \o Space \o choices)
        ELSE notes

\* dict[key] = value, when value is truthy
with_optional(d, key, value) == IF value # Empty THEN d @@ (key :> value) ELSE d

\* Lines 161-173: the entry appended to pokemon_list.
pokemon_entry(pokemon_name, usage, type_name, entry) ==
    LET base == [name |-> pokemon_name, usage |-> usage,
                 types |-> entry_types(type_name, entry), completed |-> FALSE]
        ability == strip(get(entry, "Ability"))
        moves == collect_moves(entry)
        notes == entry_notes(entry)
    IN  with_optional(with_optional(with_optional(base, "ability", ability),
                                    "moves", moves), "notes", notes)
nm_Charizard == <<"C", "h", "a", "r", "i", "z", "a", "r", "d">>
nm_Pikachu_padded == <<" ", "P", "i", "k", "a", "c", "h", "u", " ">>
nm_blank == <<" ", " ">>
nm_charizard == <<"c", "h", "a", "r", "i", "z", "a", "r", "d">>
nm_Tauros_Phys == <<"T", "a", "u", "r", "o", "s", " ", "P", "h", "y", "s">>
nm_Bug_Ice == <<"B", "u", "g", "/", "I", "c", "e">>
nm_optional == <<"(", "o", "p", "t", "i", "o", "n", "a", "l", ")">>
nm_Pick_5 == <<"P", "i", "c", "k", " ", "5">>
nm_Choices == <<"C", "h", "o", "i", "c", "e", "s">>
nm_Special_Attackers == <<"S", "p", "e", "c", "i", "a", "l", " ", "A", "t", "t", "a", "c", "k", "e", "r", "s">>
us_Special_Attacker == <<"S", "p", "e", "c", "i", "a", "l", " ", "A", "t", "t", "a", "c", "k", "e", "r">>
us_Physical_Special_mix == <<"P", "h", "y", "s", "i", "c", "a", "l", "/", "S", "p", "e", "c", "i", "a", "l", " ", "m", "i", "x">>
us_Physical == <<"P", "h", "y", "s", "i", "c", "a", "l">>
us_phys_sweeper == <<" ", "p", "h", "y", "s", " ", "s", "w", "e", "e", "p", "e", "r">>
us_Physical_Support == <<"P", "h", "y", "s", "i", "c", "a", "l", " ", "S", "u", "p", "p", "o", "r", "t">>
us_support == <<"s", "u", "p", "p", "o", "r", "t">>
us_Special_Utility == <<"S", "p", "e", "c", "i", "a", "l", " ", "U", "t", "i", "l", "i", "t", "y">>
us_special_PHYS == <<"s", "p", "e", "c", "i", "a", "l", " ", "o", "r", " ", "P", "H", "Y", "S">>
us_Tank == <<"T", "a", "n", "k">>
se_Dragon_Claw_coverage == <<"D", "r", "a", "g", "o", "n", " ", "C", "l", "a", "w", " ", "c", "o", "v", "e", "r", "a", "g", "e">>
se_Ice_Dragon == <<"I", "c", "e", "/", "D", "r", "a", "g", "o", "n">>
se_dragon_ICE == <<"d", "r", "a", "g", "o", "n", " ", "I", "C", "E">>
se_Wall == <<" ", "W", "a", "l", "l", " ">>
se_Nice_lead == <<"N", "i", "c", "e", " ", "l", "e", "a", "d">>
ch_Pick_5 == <<"P", "i", "c", "k", " ", "5">>
ch_needed == <<"n", "e", "e", "d", "e", "d">>
ch_Pick_5_more == <<"P", "i", "c", "k", " ", "5", " ", "m", "o", "r", "e">>
ch_Alt == <<" ", "A", "l", "t", " ">>
mv_Flare_Blitz == <<"F", "l", "a", "r", "e", " ", "B", "l", "i", "t", "z">>
mv_Dragon_Claw == <<"D", "r", "a", "g", "o", "n", " ", "C", "l", "a", "w">>
mv_Surf == <<" ", "S", "u", "r", "f", " ">>
mv_Ice_Beam == <<"I", "c", "e", " ", "B", "e", "a", "m">>
ab_Blaze == <<"B", "l", "a", "z", "e">>
ab_blank == <<" ">>
tk_fire == <<"f", "i", "r", "e">>
tk_ICE == <<"I", "C", "E">>
tk_utility == <<"u", "t", "i", "l", "i", "t", "y">>
tk_Dragon == <<"D", "r", "a", "g", "o", "n">>

(***************************************************************************)
(* Inputs: the contents of data/checklist_xmas.json                        *)
(***************************************************************************)
\* A field of a raw row: <<>> when the key is missing, <<v>> when it maps to v.
field(key, opt) == IF opt = <<>> THEN <<>> ELSE key :> opt[1]

RawRow(name, usage, secondary, choices, rest) ==
    field("Fire", name) @@ field("Level 80", usage)
    @@ field("Secondary Usage", secondary) @@ field("Choices", choices) @@ rest

NameFields ==
    { <<>>, <<Empty>>, <<nm_blank>>, <<nm_Charizard>>, <<nm_Pikachu_padded>>,
      <<LEVEL_80>>, <<nm_charizard>>, <<nm_Tauros_Phys>>, <<nm_Bug_Ice>>, <<NEEDED>>,
      <<nm_optional>>, <<nm_Pick_5>>, <<nm_Choices>>, <<nm_Special_Attackers>>,
      <<Utility>> }

UsageFields ==
    { <<>>, <<Empty>>, <<LEVEL_80>>, <<us_Tank>>, <<us_Special_Attacker>>,
      <<us_Physical_Special_mix>>, <<us_special_PHYS>>, <<us_Physical>>,
      <<us_phys_sweeper>>, <<us_Physical_Support>>, <<Utility>>, <<us_support>>,
      <<us_Special_Utility>> }

SecondaryFields ==
    { <<>>, <<Empty>>, <<se_Dragon_Claw_coverage>>, <<se_Ice_Dragon>>, <<se_dragon_ICE>>,
      <<se_Wall>>, <<se_Nice_lead>> }

ChoicesFields ==
    { <<>>, <<Empty>>, <<ch_Pick_5>>, <<ch_needed>>, <<ch_Pick_5_more>>, <<ch_Alt>> }

\* Moves and ability columns: the scenario's, and one with a blank move, a
\* padded move, a missing move key and no ability key.
RestFields ==
    { ("Moves" :> mv_Flare_Blitz) @@ ("__2" :> mv_Dragon_Claw) @@ ("__3" :> Empty)
          @@ ("__4" :> Empty) @@ ("Ability" :> ab_Blaze),
      ("Moves" :> Empty) @@ ("__2" :> mv_Surf) @@ ("__4" :> mv_Ice_Beam) }

TypeKeys == {tk_fire, tk_ICE, tk_utility, tk_Dragon}

\* The row of the specification's Charizard scenario.
CharizardRow ==
    RawRow(<<nm_Charizard>>, <<us_Special_Attacker>>, <<se_Dragon_Claw_coverage>>,
           <<ch_Pick_5>>,
           ("Moves" :> mv_Flare_Blitz) @@ ("__2" :> mv_Dragon_Claw) @@ ("__3" :> Empty)
               @@ ("__4" :> Empty) @@ ("Ability" :> ab_Blaze))

\* Rows that exercise the classifier: every name with every usage.
ClassifierRows ==
    { RawRow(n, u, s, c, r) : n \in NameFields, u \in UsageFields,
                              s \in {<<>>, <<se_Ice_Dragon>>},
                              c \in {<<Empty>>, <<ch_Alt>>}, r \in RestFields }

\* Rows that exercise the field extractor: every secondary usage with every
\* choices text, under names and usages of each outcome.
ExtractorRows ==
    { RawRow(n, u, s, c, r) : n \in {<<nm_Charizard>>, <<nm_Pikachu_padded>>, <<LEVEL_80>>},
                              u \in {<<us_Special_Attacker>>, <<us_Physical_Support>>,
                                     <<us_support>>, <<us_Physical_Special_mix>>},
                              s \in SecondaryFields, c \in ChoicesFields,
                              r \in RestFields }

\* The rows of single-row sources.
AllRows == ClassifierRows \cup ExtractorRows

\* A smaller set of rows, one per outcome, for sources of several rows.
SampleRows ==
    { CharizardRow,
      RawRow(<<LEVEL_80>>, <<us_Physical_Special_mix>>, <<>>, <<>>, <<>>),
      RawRow(<<nm_Pikachu_padded>>, <<us_Physical_Special_mix>>, <<se_Wall>>, <<ch_Alt>>, <<>>),
      RawRow(<<nm_Charizard>>, <<us_Tank>>, <<Empty>>, <<ch_needed>>, <<>>),
      RawRow(<<nm_Pikachu_padded>>, <<us_Physical_Support>>, <<se_Wall>>, <<ch_Alt>>,
             ("__2" :> mv_Surf) @@ ("Ability" :> ab_blank)),
      RawRow(<<nm_Charizard>>, <<us_support>>, <<se_dragon_ICE>>, <<>>, <<>>) }

SampleKeys == {tk_ICE, tk_utility}

\* Bounds of the model.
MaxRows == 2
MaxRuns == 2

\* Sequences over S of length n, and of length at most n.
SeqN(S, n) == [1..n -> S]
SeqUpTo(S, n) == UNION {SeqN(S, k) : k \in 0..n}

\* Sequences of distinct category keys: a JSON object has each key once.
KeyOrders(K) ==
    { ks \in SeqUpTo(K, Cardinality(K)) :
          \A i, j \in DOMAIN ks : i # j => ks[i] # ks[j] }

\* Ways to cut n rows into c consecutive (possibly empty) groups: ends[i] is
\* the index of the last row of group i.
Cuts(c, n) ==
    { ends \in [1..c -> 0..n] :
          /\ \A i \in 1..(c - 1) : ends[i] <= ends[i + 1]
          /\ c > 0 => ends[c] = n }

\* The parsed JSON object: the categories in file order, each with its rows.
Grouped(ks, rows, ends) ==
    [i \in DOMAIN ks |->
        [key  |-> ks[i],
         rows |-> SubSeq(rows, (IF i = 1 THEN 0 ELSE ends[i - 1]) + 1, ends[i])]]

Loaded(data) == [kind |-> "ok", data |-> data]

\* A source that open() or json.load() raises on.
Unreadable == { [kind |-> "missing", data |-> <<>>], [kind |-> "malformed", data |-> <<>>] }

\* Sources with up to MaxRows rows of SampleRows spread over categories.
Sources ==
    Unreadable \cup
    UNION { UNION { { Loaded(Grouped(ks, rows, ends)) :
                          ends \in Cuts(Len(ks), Len(rows)) } :
                    rows \in SeqUpTo(SampleRows, MaxRows) } :
            ks \in KeyOrders(SampleKeys) }

\* Sources of one category holding one row, over every combination of fields.
RowSources ==
    Unreadable \cup
    { Loaded(<<[key |-> k, rows |-> <<r>>]>>) : k \in TypeKeys, r \in AllRows }

(***************************************************************************)
(* State                                                                   *)
(***************************************************************************)
VARIABLES
    source,        \* data/checklist_xmas.json
    out_file,      \* data/checklist_christmas_2024.json
    clock,         \* datetime.utcnow()
    runs,          \* invocations of transform_checklist so far
    pc,            \* "idle", "loop", "done" or "failed"
    ci,            \* index of the category being iterated (0 before the first)
    ri,            \* rows of that category already processed
    type_name,     \* primary type of the current category
    pokemon_list,
    issues,
    stats,
    checklists,    \* the checklists collection of MongoDB, in insertion order
    argv,          \* the command line of the latest run of mongo_helper.py
    stdin,         \* the lines its input() calls read
    helper_runs,   \* invocations of mongo_helper.py so far
    bosses_json,   \* data/bosses.json
    init_runs,     \* invocations of init_db so far
    db_exists,     \* whether data/checklist.db exists
    types_table,   \* the rows of the types table
    season_tables  \* table name -> rows, for the season tables that exist

\* The state of the document store and of the SQLite database.
store_vars == <<checklists, argv, stdin, helper_runs, bosses_json, init_runs, db_exists,
                types_table,
                season_tables>>

vars == <<source, out_file, clock, runs, pc, ci, ri, type_name,
          pokemon_list, issues, stats, checklists, argv, stdin, helper_runs,
          bosses_json, init_runs,
          db_exists, types_table, season_tables>>

NoFile == [exists |-> FALSE, doc |-> <<>>]

ZeroStats ==
    [total_entries |-> 0, skipped_invalid_name |-> 0, skipped_no_usage |-> 0,
     skipped_ambiguous_usage |-> 0, converted |-> 0]

InitRest ==
    /\ out_file = NoFile
    /\ clock = 0
    /\ runs = 0
    /\ pc = "idle"
    /\ ci = 0
    /\ ri = 0
    /\ type_name = Empty
    /\ pokemon_list = <<>>
    /\ issues = <<>>
    /\ stats = ZeroStats

\* An empty collection, no command line, no database file.
InitStores ==
    /\ checklists = <<>>
    /\ argv = <<>>
    /\ stdin = <<>>
    /\ helper_runs = 0
    /\ bosses_json = <<>>
    /\ init_runs = 0
    /\ db_exists = FALSE
    /\ types_table = <<>>
    /\ season_tables = <<>>

Init == source \in Sources /\ InitRest /\ InitStores

InitRow == source \in RowSources /\ InitRest /\ InitStores

(***************************************************************************)
(* transform_checklist()                                                   *)
(***************************************************************************)
old_data == source.data

\* The rows of the category being iterated.
entries == IF ci = 0 THEN <<>> ELSE old_data[ci].rows

Invoked == pc \in {"idle", "done", "failed"} /\ runs < MaxRuns

\* Variant: pokemon_list outlives the invocation and is not created anew.
LoadSource_keeping_list ==
    /\ Invoked
    /\ source.kind = "ok"
    /\ runs' = runs + 1
    /\ pc' = "loop"
    /\ ci' = 0
    /\ ri' = 0
    /\ type_name' = Empty
    /\ issues' = <<>>
    /\ stats' = ZeroStats
    /\ UNCHANGED <<source, out_file, clock, pokemon_list>>
    /\ UNCHANGED store_vars

\* Lines 91-102: the source loads; the locals of the run are created.
LoadSource ==
    /\ Invoked
    /\ source.kind = "ok"
    /\ runs' = runs + 1
    /\ pc' = "loop"
    /\ ci' = 0
    /\ ri' = 0
    /\ type_name' = Empty
    /\ pokemon_list' = <<>>
    /\ issues' = <<>>
    /\ stats' = ZeroStats
    /\ UNCHANGED <<source, out_file, clock>>
    /\ UNCHANGED store_vars

\* Variant: the output file is opened for writing before the source is read.
LoadFails_truncating ==
    /\ Invoked
    /\ source.kind # "ok"
    /\ runs' = runs + 1
    /\ pc' = "failed"
    /\ out_file' = [exists |-> TRUE, doc |-> <<>>]
    /\ UNCHANGED <<source, clock, ci, ri, type_name, pokemon_list, issues, stats>>
    /\ UNCHANGED store_vars

\* Lines 91-92: open() or json.load() raises and the run ends there.
LoadFails ==
    /\ Invoked
    /\ source.kind # "ok"
    /\ runs' = runs + 1
    /\ pc' = "failed"
    /\ UNCHANGED <<source, out_file, clock, ci, ri, type_name,
                   pokemon_list, issues, stats>>
    /\ UNCHANGED store_vars

\* Lines 105-109: the outer loop moves to the next category.
NextCategory ==
    /\ pc = "loop"
    /\ ri = Len(entries)
    /\ ci < Len(old_data)
    /\ ci' = ci + 1
    /\ ri' = 0
    /\ type_name' = category_type_name(old_data[ci + 1].key)
    /\ UNCHANGED <<source, out_file, clock, runs, pc, pokemon_list, issues, stats>>
    /\ UNCHANGED store_vars

\* Variant: the no-usage branch forgets its counter.
bump_but_no_usage(st, counter) ==
    IF counter = "skipped_no_usage" THEN st ELSE [st EXCEPT ![counter] = @ + 1]

bump(st, counter) == [st EXCEPT ![counter] = @ + 1]

InvalidNameIssue(pokemon_name, type_key) ==
    [kind |-> "SKIPPED (invalid name)", name |-> pokemon_name, type_key |-> type_key,
     field |-> Empty]

AmbiguousIssue(usage_field, pokemon_name) ==
    [kind |-> "AMBIGUOUS USAGE", name |-> pokemon_name, type_key |-> Empty,
     field |-> usage_field]

NoUsageIssue(pokemon_name, type_key, usage_field) ==
    [kind |-> "NO USAGE", name |-> pokemon_name, type_key |-> type_key,
     field |-> usage_field]

\* Variant: the markers are searched in the usage as written, not upper-cased.
is_ambiguous_cased(usage_field) ==
    /\ usage_field # Empty
    /\ contains(PHYS, usage_field)
    /\ contains(SPECIAL, usage_field)

\* Line 127: the test that tells an ambiguous usage from a missing one.
is_ambiguous(usage_field) ==
    /\ usage_field # Empty
    /\ contains(PHYS, upper(usage_field))
    /\ contains(SPECIAL, upper(usage_field))

\* Variant: the no-usage branch lacks its continue and falls through.
ProcessRow_no_continue ==
    /\ pc = "loop"
    /\ ri < Len(entries)
    /\ LET entry == entries[ri + 1]
           type_key == old_data[ci].key
           counted == bump(stats, "total_entries")
           pokemon_name == strip(get(entry, "Fire"))
           usage_field == get(entry, "Level 80")
           usage == normalize_usage(usage_field)
       IN  IF ~is_valid_pokemon_name(pokemon_name)
           THEN /\ stats' = bump(counted, "skipped_invalid_name")
                /\ issues' = Append(issues, InvalidNameIssue(pokemon_name, type_key))
                /\ UNCHANGED pokemon_list
           ELSE IF usage = None /\ is_ambiguous(usage_field)
           THEN /\ stats' = bump(counted, "skipped_ambiguous_usage")
                /\ issues' = Append(issues, AmbiguousIssue(usage_field, pokemon_name))
                /\ UNCHANGED pokemon_list
           ELSE IF usage = None
           THEN /\ stats' = bump(bump(counted, "skipped_no_usage"), "converted")
                /\ issues' = Append(issues,
                                    NoUsageIssue(pokemon_name, type_key, usage_field))
                /\ pokemon_list' = Append(pokemon_list,
                                          pokemon_entry(pokemon_name, usage, type_name, entry))
           ELSE /\ pokemon_list' = Append(pokemon_list,
                                          pokemon_entry(pokemon_name, usage, type_name, entry))
                /\ stats' = bump(counted, "converted")
                /\ UNCHANGED issues
    /\ ri' = ri + 1
    /\ UNCHANGED <<source, out_file, clock, runs, pc, ci, type_name>>
    /\ UNCHANGED store_vars

\* Lines 111-176: one iteration of the inner loop.
ProcessRow ==
    /\ pc = "loop"
    /\ ri < Len(entries)
    /\ LET entry == entries[ri + 1]
           type_key == old_data[ci].key
           counted == bump(stats, "total_entries")
           pokemon_name == strip(get(entry, "Fire"))
           usage_field == get(entry, "Level 80")
           usage == normalize_usage(usage_field)
       IN  IF ~is_valid_pokemon_name(pokemon_name)
           THEN /\ stats' = bump(counted, "skipped_invalid_name")
                /\ issues' = Append(issues, InvalidNameIssue(pokemon_name, type_key))
                /\ UNCHANGED pokemon_list
           ELSE IF usage = None
           THEN /\ IF is_ambiguous(usage_field)
                   THEN /\ stats' = bump(counted, "skipped_ambiguous_usage")
                        /\ issues' = Append(issues, AmbiguousIssue(usage_field, pokemon_name))
                   ELSE /\ stats' = bump(counted, "skipped_no_usage")
                        /\ issues' = Append(issues,
                                            NoUsageIssue(pokemon_name, type_key, usage_field))
                /\ UNCHANGED pokemon_list
           ELSE /\ pokemon_list' = Append(pokemon_list,
                                          pokemon_entry(pokemon_name, usage, type_name, entry))
                /\ stats' = bump(counted, "converted")
                /\ UNCHANGED issues
    /\ ri' = ri + 1
    /\ UNCHANGED <<source, out_file, clock, runs, pc, ci, type_name>>
    /\ UNCHANGED store_vars

\* Lines 179-184: the document written to the output file.
mongo_doc ==
    [season |-> "christmas_2024", user_id |-> "default", pokemon |-> pokemon_list,
     updated_at |-> clock]

\* Lines 179-188: both loops are over; the document is built and written.
WriteOutput ==
    /\ pc = "loop"
    /\ ri = Len(entries)
    /\ ci = Len(old_data)
    /\ out_file' = [exists |-> TRUE, doc |-> mongo_doc]
    /\ clock' = clock + 1
    /\ pc' = "done"
    /\ UNCHANGED <<source, runs, ci, ri, type_name, pokemon_list, issues, stats>>
    /\ UNCHANGED store_vars

Next == LoadSource \/ LoadFails \/ NextCategory \/ ProcessRow \/ WriteOutput

Spec == Init /\ [][Next]_vars

SpecRow == InitRow /\ [][Next]_vars

(***************************************************************************)
(* mongo_helper.py: the checklists collection                              *)
(*                                                                         *)
(* A document is a function from its field names to values, so that a      *)
(* missing field differs from any value.  Names, usages and type tags are  *)
(* Python strings; seasons and user ids are never transformed and are      *)
(* written as TLA+ strings.                                                *)
(***************************************************************************)
Special == <<"S", "p", "e", "c", "i", "a", "l">>
ti_Ice_dragon == <<" ", "I", "c", "e", ",", "d", "r", "a", "g", "o", "n", " ", ",", ",">>
hi_Leftovers == <<"L", "e", "f", "t", "o", "v", "e", "r", "s">>
nt_lead == <<"l", "e", "a", "d">>
nm_Pikachu == <<"P", "i", "k", "a", "c", "h", "u">>
rs_y == <<"y">>
rs_Y == <<"Y">>
rs_n == <<"n">>
rs_yes == <<"y", "e", "s">>
ICE_upper == <<"I", "C", "E">>
DRAGON_upper == <<"D", "R", "A", "G", "O", "N">>

\* Bound on the invocations of mongo_helper.py.
MaxOps == 3

Seasons == {"christmas_2024", "halloween_2025"}

\* s.split(c) for a one-character separator c
RECURSIVE split(_, _)
split(s, c) ==
    IF \A i \in DOMAIN s : s[i] # c THEN <<s>>
    ELSE LET i == CHOOSE k \in DOMAIN s : s[k] = c /\ \A j \in 1..(k - 1) : s[j] # c
         IN  <<SubSeq(s, 1, i - 1)>> \o split(SubSeq(s, i + 1, Len(s)), c)

\* [f(x) for x in list]
map_list(list, f(_)) == [i \in DOMAIN list |-> f(list[i])]

\* A query {"season": season, "user_id": user_id}: both fields present and equal.
matches(doc, season, user_id) ==
    /\ "season" \in DOMAIN doc /\ doc["season"] = season
    /\ "user_id" \in DOMAIN doc /\ doc["user_id"] = user_id

\* doc.get('pokemon', [])
pokemon_of(doc) == IF "pokemon" \in DOMAIN doc THEN doc["pokemon"] ELSE <<>>

\* Index of the first document of the collection that satisfies test, 0 if none:
\* what find_one, update_one and replace_one act on.
first_match(coll, test(_)) ==
    IF \E i \in DOMAIN coll : test(coll[i])
    THEN CHOOSE i \in DOMAIN coll : test(coll[i]) /\ \A j \in 1..(i - 1) : ~test(coll[j])
    ELSE 0

\* dict with key set to value
with_field(d, key, value) == (key :> value) @@ d

\* Lines 121-126 and 134: the element filter of toggle_complete.
elem_matches(elem, pokemon_name, usage) ==
    elem["name"] = pokemon_name /\ elem["usage"] = usage

\* Lines 128-133: the $set of toggle_complete applied to a document at time now.
set_completed(doc, pokemon_name, usage, now) ==
    with_field(
        with_field(doc, "pokemon",
                   map_list(pokemon_of(doc),
                            LAMBDA elem : IF elem_matches(elem, pokemon_name, usage)
                                          THEN with_field(elem, "completed", TRUE)
                                          ELSE elem)),
        "updated_at", now)

HelperInvoked == helper_runs < MaxOps

\* The frame of every mongo_helper.py command: the transform and the SQLite
\* database are not touched.
HelperFrame ==
    /\ helper_runs' = helper_runs + 1
    /\ UNCHANGED <<source, out_file, runs, pc, ci, ri, type_name, pokemon_list,
                   issues, stats, bosses_json, init_runs, db_exists, types_table,
                   season_tables>>

\* Lines 308-315 and 113-148: python mongo_helper.py complete <name> <usage> [season]
toggle_complete ==
    /\ HelperInvoked
    /\ \E pokemon_name \in {nm_Charizard, nm_Pikachu}, usage \in {us_Physical, Special},
          season \in Seasons :
          LET hit(doc) == /\ matches(doc, season, "default")
                          /\ \E i \in DOMAIN pokemon_of(doc) :
                                 elem_matches(pokemon_of(doc)[i], pokemon_name, usage)
              at == first_match(checklists, hit)
          IN  /\ argv' = <<"complete", pokemon_name, usage, season>>
              /\ stdin' = <<>>
              /\ IF at # 0
                 THEN /\ checklists' =
                           [checklists EXCEPT
                               ![at] = set_completed(@, pokemon_name, usage, clock)]
                      /\ clock' = clock + 1
                 ELSE UNCHANGED <<checklists, clock>>
    /\ HelperFrame


\* What the input() calls of add_pokemon read, in order; the run stops reading
\* at the first answer it rejects.
AddInputs ==
    { <<nm_blank>>,
      <<nm_Charizard, us_phys_sweeper>>,
      <<nm_Pikachu_padded, Special, ti_Ice_dragon, Empty, Empty, Empty, Empty>>,
      <<nm_Charizard, us_Physical, Empty, hi_Leftovers, ab_Blaze, mv_Surf, nt_lead>> }

\* Line 166: the types typed in, split at commas, trimmed and upper-cased.
parse_types(types_input) ==
    map_list(SelectSeq(split(types_input, ","), LAMBDA t : strip(t) # Empty),
             LAMBDA t : upper(strip(t)))

\* Lines 173-187: the entry add_pokemon builds from its answers.
added_entry(lines) ==
    LET base == [name |-> strip(lines[1]), usage |-> strip(lines[2]),
                 types |-> parse_types(strip(lines[3])), completed |-> FALSE]
    IN  with_optional(with_optional(with_optional(with_optional(base,
            "held_item", strip(lines[4])), "ability", strip(lines[5])),
            "moves", strip(lines[6])), "notes", strip(lines[7]))

\* Lines 190-197: update_one with $push, $set and upsert=True.
push_pokemon(coll, season, entry, now) ==
    LET hit(doc) == matches(doc, season, "default")
        at == first_match(coll, hit)
    IN  IF at # 0
        THEN [coll EXCEPT ![at] =
                 with_field(with_field(@, "pokemon", Append(pokemon_of(@), entry)),
                            "updated_at", now)]
        ELSE Append(coll, [season |-> season, user_id |-> "default",
                           pokemon |-> <<entry>>, updated_at |-> now])

\* Lines 316-318 and 150-202: python mongo_helper.py add [season]
add_pokemon ==
    /\ HelperInvoked
    /\ \E season \in Seasons, lines \in AddInputs :
          /\ argv' = <<"add", season>>
          /\ stdin' = lines
          /\ IF strip(lines[1]) = Empty
             THEN UNCHANGED <<checklists, clock>>
             ELSE IF ~in_list(strip(lines[2]), <<us_Physical, Special, Support>>)
             THEN UNCHANGED <<checklists, clock>>
             ELSE /\ checklists' = push_pokemon(checklists, season, added_entry(lines), clock)
                  /\ clock' = clock + 1
    /\ HelperFrame

\* The JSON files import_json is given: name -> parsed content (<<>> when the
\* file cannot be read or parsed).
ImportFiles ==
    [unreadable |-> <<>>,
     no_season |->
        << [user_id |-> "default",
            pokemon |-> <<[name |-> nm_Charizard, usage |-> us_Physical,
                           types |-> <<Ice>>, completed |-> FALSE]>>] >>,
     christmas |->
        << [season |-> "christmas_2024", user_id |-> "default", updated_at |-> 0,
            pokemon |-> <<[name |-> nm_Charizard, usage |-> us_Physical,
                           types |-> <<Dragon, Ice>>, completed |-> FALSE],
                          [name |-> nm_Pikachu, usage |-> Special, completed |-> TRUE]>>] >>,
     christmas_no_user |->
        << [season |-> "christmas_2024",
            pokemon |-> <<[name |-> nm_Pikachu, usage |-> Special,
                           types |-> <<Ice>>, completed |-> FALSE]>>] >>,
     halloween_ash |->
        << [season |-> "halloween_2025", user_id |-> "ash"] >>]

Responses == {Empty, rs_n, rs_y, rs_Y, rs_yes}

\* Variant: the upper-cased lists are built but not stored in the document.
normalize_types_dropped(doc) == doc

\* Lines 218-221: the type tags of the document upper-cased in place.
normalize_types(doc) ==
    IF "pokemon" \in DOMAIN doc
    THEN with_field(doc, "pokemon",
                    map_list(doc["pokemon"],
                             LAMBDA pokemon :
                                 IF "types" \in DOMAIN pokemon
                                 THEN with_field(pokemon, "types",
                                                 map_list(pokemon["types"], upper))
                                 ELSE pokemon))
    ELSE doc

\* Lines 319-324 and 204-243: python mongo_helper.py import <json_file>
import_json ==
    /\ HelperInvoked
    /\ \E json_file \in DOMAIN ImportFiles :
          /\ argv' = <<"import", json_file>>
          /\ IF ImportFiles[json_file] = <<>> \/ "season" \notin DOMAIN ImportFiles[json_file][1]
             THEN /\ stdin' = <<>>
                  /\ UNCHANGED checklists
             ELSE LET doc == normalize_types(ImportFiles[json_file][1])
                      season == doc["season"]
                      user_id == IF "user_id" \in DOMAIN doc THEN doc["user_id"] ELSE "default"
                      hit(d) == matches(d, season, user_id)
                      existing == first_match(checklists, hit)
                  IN  IF existing # 0
                      THEN \E response \in Responses :
                              /\ stdin' = <<response>>
                              /\ IF lower(response) # rs_y
                                 THEN UNCHANGED checklists
                                 ELSE checklists' = [checklists EXCEPT ![existing] = doc]
                      ELSE /\ stdin' = <<>>
                           /\ checklists' = Append(checklists, doc)
    /\ UNCHANGED clock
    /\ HelperFrame

NextMongo == toggle_complete \/ add_pokemon \/ import_json

InitMongo == source = Loaded(<<>>) /\ InitRest /\ InitStores

SpecMongo == InitMongo /\ [][NextMongo]_vars

\* Runs of the import and add commands only.
NextImportAdd == import_json \/ add_pokemon

SpecImportAdd == InitMongo /\ [][NextImportAdd]_vars

(***************************************************************************)
(* init_checklist_db.py: the SQLite database                               *)
(*                                                                         *)
(* types_table holds the type names in id order (id = position);           *)
(* season_tables holds the season tables in creation order, each with its  *)
(* rows in id order.                                                       *)
(***************************************************************************)
bs_Christmas == <<"C", "h", "r", "i", "s", "t", "m", "a", "s">>
bs_Winter_Fest == <<"W", "i", "n", "t", "e", "r", " ", "F", "e", "s", "t">>
by_2024 == <<"2", "0", "2", "4">>
Underscore == <<"_">>

\* s.replace(a, b) for one-character a and b
replace(s, a, b) == [i \in DOMAIN s |-> IF s[i] = a THEN b[1] ELSE s[i]]

\* What data/bosses.json may hold.
BossesFiles ==
    { [kind |-> "missing", list |-> <<>>],
      [kind |-> "malformed", list |-> <<>>],
      [kind |-> "object", list |-> <<>>],
      [kind |-> "list", list |-> <<>>],
      [kind |-> "list", list |-> << [season |-> bs_Christmas, year |-> by_2024] >>],
      [kind |-> "list", list |-> << [season |-> bs_Winter_Fest],
                                    [year |-> by_2024],
                                    [season |-> bs_Christmas, year |-> by_2024] >>] }

\* Lines 40-42: the table name of a season object.
season_name_of(season_data) == replace(lower(get(season_data, "season")), " ", Underscore)

table_name_of(season_data) ==
    IF get(season_data, "year") # Empty
    THEN season_name_of(season_data) \o Underscore \o get(season_data, "year")
    ELSE season_name_of(season_data)

\* Position of the table of that name in the database, 0 if there is none.
table_index(tables, table_name) ==
    IF \E i \in DOMAIN tables : tables[i].name = table_name
    THEN CHOOSE i \in DOMAIN tables : tables[i].name = table_name
    ELSE 0

\* Lines 60-92: the season table is created unless it exists.
init_season(tables, table_name) ==
    IF table_index(tables, table_name) = 0
    THEN Append(tables, [name |-> table_name, rows |-> <<>>])
    ELSE tables

\* Line 105: the id of a type, names compared without regard to case.
type_id_of(types, type_key) ==
    IF \E i \in DOMAIN types : lower(types[i]) = lower(type_key)
    THEN CHOOSE i \in DOMAIN types : lower(types[i]) = lower(type_key)
    ELSE 0

\* Line 102: INSERT OR IGNORE under the UNIQUE COLLATE NOCASE constraint.
insert_type(types, type_key) ==
    IF type_id_of(types, type_key) = 0 THEN Append(types, type_key) ELSE types

\* Lines 117-123: the move fields, trimmed, without the empty ones, joined.
RECURSIVE moves_from(_, _)
moves_from(i, entry) ==
    IF i > Len(move_keys) THEN <<>>
    ELSE LET move == strip(get(entry, move_keys[i]))
         IN  (IF move # Empty THEN <<move>> ELSE <<>>) \o moves_from(i + 1, entry)

\* Lines 126-136: the row inserted for a checklist entry.
season_row(type_id, pokemon_entry_) ==
    [type_id |-> type_id,
     pokemon_name |-> get(pokemon_entry_, "Fire"),
     phys_special |-> get(pokemon_entry_, "Level 80"),
     secondary_type |-> get(pokemon_entry_, "Secondary Usage"),
     held_item |-> get(pokemon_entry_, "held_item"),
     ability |-> get(pokemon_entry_, "Ability"),
     moves |-> join(CommaSpace, moves_from(1, pokemon_entry_)),
     notes |-> get(pokemon_entry_, "Choices"),
     completed |-> 0]

\* Lines 113-115: a header row is not inserted.
is_header_row(pokemon_entry_) ==
    get(pokemon_entry_, "Fire") = Empty \/ get(pokemon_entry_, "Fire") = LEVEL_80

\* Lines 112-136: the rows inserted for the entries of one type.
type_rows(type_id, pokemons) ==
    LET kept == SelectSeq(pokemons, LAMBDA e : ~is_header_row(e))
    IN  [i \in DOMAIN kept |-> season_row(type_id, kept[i])]

\* Lines 100-136: load_data from category i on; db is [types, tables].
RECURSIVE load_data(_, _, _, _)
load_data(db, data, i, table_name) ==
    IF i > Len(data) THEN db
    ELSE LET types == insert_type(db.types, data[i].key)
             type_id == type_id_of(types, data[i].key)
             at == table_index(db.tables, table_name)
             tables == [db.tables EXCEPT
                           ![at].rows = @ \o type_rows(type_id, data[i].rows)]
         IN  load_data([types |-> types, tables |-> tables], data, i + 1, table_name)

\* Lines 39-47: the loop over the season objects from index i on. An
\* unreadable checklist raises in load_data; the handlers of lines 50-53 end
\* the loop there.
RECURSIVE seasons_loop(_, _, _)
seasons_loop(db, bosses_list, i) ==
    IF i > Len(bosses_list) THEN db
    ELSE IF season_name_of(bosses_list[i]) = Empty
    THEN seasons_loop(db, bosses_list, i + 1)
    ELSE LET table_name == table_name_of(bosses_list[i])
             created == [db EXCEPT !.tables = init_season(@, table_name)]
         IN  IF source.kind # "ok" THEN created
             ELSE seasons_loop(load_data(created, source.data, 1, table_name),
                               bosses_list, i + 1)

\* Lines 14-57: python init_checklist_db.py
init_db ==
    /\ init_runs < MaxRuns
    /\ init_runs' = init_runs + 1
    /\ db_exists' = TRUE
    /\ LET db == [types |-> types_table, tables |-> season_tables]
           after == IF bosses_json.kind = "list"
                    THEN seasons_loop(db, bosses_json.list, 1)
                    ELSE db
       IN  /\ types_table' = after.types
           /\ season_tables' = after.tables
    /\ UNCHANGED <<source, out_file, clock, runs, pc, ci, ri, type_name, pokemon_list,
                   issues, stats, checklists, argv, stdin, helper_runs, bosses_json>>

NextDb == init_db

InitDb ==
    /\ source \in Sources
    /\ InitRest
    /\ checklists = <<>> /\ argv = <<>> /\ stdin = <<>> /\ helper_runs = 0
    /\ bosses_json \in BossesFiles
    /\ init_runs = 0
    /\ db_exists = FALSE
    /\ types_table = <<>>
    /\ season_tables = <<>>

SpecDb == InitDb /\ [][NextDb]_vars

(***************************************************************************)
(* Vocabulary of the properties                                            *)
(***************************************************************************)
\* A row is about to be processed, and it is CurrentRow.
RowPending == pc = "loop" /\ ri < Len(entries)

CurrentRow == entries[ri + 1]

\* m occurs in s as a substring when letter case is ignored.
ContainsIgnoringCase(m, s) ==
    \E i \in 0..(Len(s) - Len(m)) :
        \A k \in 1..Len(m) : lower_char(s[i + k]) = lower_char(m[k])

\* The step appends exactly one issue of the given kind, counts it under the
\* given counter and appends no entry.
SkippedAs(kind, counter) ==
    /\ Len(issues') = Len(issues) + 1
    /\ SubSeq(issues', 1, Len(issues)) = issues
    /\ issues'[Len(issues')].kind = kind
    /\ stats'[counter] = stats[counter] + 1
    /\ \A c \in {"skipped_invalid_name", "skipped_no_usage", "skipped_ambiguous_usage",
                 "converted"} \ {counter} : stats'[c] = stats[c]
    /\ pokemon_list' = pokemon_list

\* Every row of the source, in file order.
RECURSIVE AllSourceRows(_)
AllSourceRows(data) ==
    IF data = <<>> THEN <<>> ELSE Head(data).rows \o AllSourceRows(Tail(data))

(***************************************************************************)
(* C1                                                                      *)
(***************************************************************************)
C1_Markers == <<pat_bug_ice, pat_level_80, pat_needed, pat_pick,
                pat_choices, pat_special, pat_phys, pat_utility>>

\* The name field, trimmed, is empty, holds a marker, or starts with something
\* other than an uppercase letter.
C1_NameRejected(raw) ==
    LET n == strip(raw) IN
    \/ n = Empty
    \/ \E i \in DOMAIN C1_Markers : ContainsIgnoringCase(C1_Markers[i], n)
    \/ ~isupper(n[1])

\* C1: a row whose trimmed name is empty, holds one of the eight markers
\* (case-insensitively) or does not start with an uppercase letter is skipped
\* as an invalid name (one such issue, skipped_invalid_name + 1, no entry
\* appended) whatever its other fields are; no accumulated or written entry
\* ever has such a name.
C1_InvalidNameSkipped ==
    /\ [][(RowPending /\ C1_NameRejected(get(CurrentRow, "Fire")))
            => SkippedAs("SKIPPED (invalid name)", "skipped_invalid_name")]_vars
    /\ [](\A i \in DOMAIN pokemon_list : ~C1_NameRejected(pokemon_list[i].name))
    /\ [](out_file.exists =>
            \A i \in DOMAIN out_file.doc.pokemon :
                ~C1_NameRejected(out_file.doc.pokemon[i].name))

\* A run is over in which a row named "Level 80" with a usable usage
\* ("Physical") was skipped as an invalid name.
C1_Witness ==
    /\ pc = "done"
    /\ \E i \in DOMAIN AllSourceRows(old_data) :
          /\ get(AllSourceRows(old_data)[i], "Fire") = LEVEL_80
          /\ get(AllSourceRows(old_data)[i], "Level 80") = us_Physical
    /\ \E i \in DOMAIN issues :
          issues[i].kind = "SKIPPED (invalid name)" /\ issues[i].name = LEVEL_80
    /\ stats.skipped_invalid_name = 1
    /\ out_file.exists /\ out_file.doc.pokemon = <<>>

(***************************************************************************)
(* C2                                                                      *)
(***************************************************************************)
\* The usage text holds both a physical and a special marker.
C2_BothMarkers(usage_field) ==
    ContainsIgnoringCase(PHYS, usage_field) /\ ContainsIgnoringCase(SPECIAL, usage_field)

\* C2 as stated: every row whose usage holds both markers is skipped as an
\* ambiguous usage.
C2_AnyRowAmbiguous ==
    [][(RowPending /\ C2_BothMarkers(get(CurrentRow, "Level 80")))
         => SkippedAs("AMBIGUOUS USAGE", "skipped_ambiguous_usage")]_vars

\* C2 amended: a row whose usage holds both a physical and a special marker is
\* never converted and never reported as NO USAGE; it is skipped as an
\* ambiguous usage when its name is valid, and as an invalid name otherwise.
C2_AmbiguousUsageSkipped ==
    [][(RowPending /\ C2_BothMarkers(get(CurrentRow, "Level 80")))
         => IF C1_NameRejected(get(CurrentRow, "Fire"))
            THEN SkippedAs("SKIPPED (invalid name)", "skipped_invalid_name")
            ELSE SkippedAs("AMBIGUOUS USAGE", "skipped_ambiguous_usage")]_vars

\* A run is over in which a validly named row with usage
\* "Physical/Special mix" was reported as ambiguous and not converted.
C2_Witness ==
    /\ pc = "done"
    /\ \E i \in DOMAIN issues :
          /\ issues[i].kind = "AMBIGUOUS USAGE"
          /\ issues[i].field = us_Physical_Special_mix
          /\ ~C1_NameRejected(issues[i].name)
    /\ stats.skipped_ambiguous_usage = 1
    /\ pokemon_list = <<>>

(***************************************************************************)
(* C3                                                                      *)
(***************************************************************************)
\* Rows consumed so far by the run in progress.
RowsSeen ==
    IF ci = 0 THEN 0
    ELSE Len(AllSourceRows(SubSeq(old_data, 1, ci - 1))) + ri

\* C3: at every point of a run total_entries is the sum of converted and the
\* three skip counters, converted is the number of accumulated entries, the
\* number of issues is the sum of the skip counters, total_entries is the
\* number of rows seen, and the written document holds converted entries.
C3_CountersConsistent ==
    /\ stats.total_entries = stats.converted + stats.skipped_invalid_name
                             + stats.skipped_no_usage + stats.skipped_ambiguous_usage
    /\ stats.converted = Len(pokemon_list)
    /\ Len(issues) = stats.skipped_invalid_name + stats.skipped_no_usage
                     + stats.skipped_ambiguous_usage
    /\ pc = "loop" => stats.total_entries = RowsSeen
    /\ pc = "done" => /\ stats.total_entries = Len(AllSourceRows(old_data))
                      /\ Len(out_file.doc.pokemon) = stats.converted

\* A run is over that converted one row and skipped another.
C3_Witness ==
    /\ pc = "done"
    /\ stats.converted = 1
    /\ stats.skipped_ambiguous_usage + stats.skipped_no_usage
         + stats.skipped_invalid_name = 1

\* The step converts the pending row: one entry appended, no issue recorded.
Converted ==
    /\ Len(pokemon_list') = Len(pokemon_list) + 1
    /\ SubSeq(pokemon_list', 1, Len(pokemon_list)) = pokemon_list
    /\ issues' = issues

NewEntry == pokemon_list'[Len(pokemon_list')]

(***************************************************************************)
(* C4                                                                      *)
(***************************************************************************)
Fire == <<"F", "i", "r", "e">>
Flare_Blitz_Dragon_Claw == <<"F", "l", "a", "r", "e", " ", "B", "l", "i", "t", "z", ",", " ", "D", "r", "a", "g", "o", "n", " ", "C", "l", "a", "w">>

C4_Canonical == <<Fighting, Rock, Ghost, Bug, Flying, Psychic, Steel, Ground, Poison,
                  Water, Grass, Electric, Ice, Dragon, Dark, Fairy, Normal>>

\* The category name capitalised, "Utility" read as "Support".
C4_Primary(type_key) ==
    IF capitalize(type_key) = Utility THEN Support ELSE capitalize(type_key)

\* The primary type, then the canonical names found in the secondary-usage
\* text that differ from it, in the canonical order.
C4_Types(type_key, row) ==
    <<C4_Primary(type_key)>> \o
    SelectSeq(C4_Canonical,
              LAMBDA t : /\ ContainsIgnoringCase(t, get(row, "Secondary Usage"))
                         /\ t # C4_Primary(type_key))

\* C4: the types of a converted row are the normalised category followed by
\* the canonical type names that occur (ignoring case) in the secondary-usage
\* text and differ from the primary type, each once, in canonical order.
C4_TypesCanonicalOrder ==
    [][(RowPending /\ Len(pokemon_list') > Len(pokemon_list))
         => NewEntry.types = C4_Types(old_data[ci].key, CurrentRow)]_vars

\* A row of category "fire" whose text names Dragon before Ice was converted
\* with Ice before Dragon.
C4_Witness ==
    /\ pc = "done"
    /\ old_data[1].key = tk_fire
    /\ get(old_data[1].rows[1], "Secondary Usage") = se_dragon_ICE
    /\ Len(pokemon_list) = 1
    /\ pokemon_list[1].types = <<Fire, Ice, Dragon>>

(***************************************************************************)
(* C5                                                                      *)
(***************************************************************************)
\* C5: a run that overwrites the document of an earlier run on the same source
\* writes the same season, owner and entries; only updated_at may differ.
C5_RerunSameDocument ==
    [][(out_file.exists /\ out_file' # out_file)
         => /\ out_file'.doc.season = out_file.doc.season
            /\ out_file'.doc.user_id = out_file.doc.user_id
            /\ out_file'.doc.pokemon = out_file.doc.pokemon]_vars

\* The second run has written its document, which holds an entry, and a row
\* was skipped on the way.
C5_Witness ==
    /\ runs = 2
    /\ pc = "done"
    /\ out_file.doc.updated_at = 1
    /\ Len(out_file.doc.pokemon) >= 1
    /\ issues # <<>>

(***************************************************************************)
(* C6                                                                      *)
(***************************************************************************)
\* The secondary-usage text, trimmed, when it names no canonical type.
C6_SecondaryNote(row) ==
    LET text == strip(get(row, "Secondary Usage"))
    IN  IF \E i \in DOMAIN C4_Canonical : ContainsIgnoringCase(C4_Canonical[i], text)
        THEN Empty ELSE text

\* The choices text, trimmed, unless it is "", "NEEDED" or "PICK 5" in any case.
C6_ChoicesNote(row) ==
    LET text == strip(get(row, "Choices"))
    IN  IF upper(text) \in {Empty, NEEDED, PICK_5} THEN Empty ELSE text

C6_Notes(row) ==
    IF C6_SecondaryNote(row) = Empty THEN C6_ChoicesNote(row)
    ELSE IF C6_ChoicesNote(row) = Empty THEN C6_SecondaryNote(row)
    ELSE C6_SecondaryNote(row) \o <<" ">> \o C6_ChoicesNote(row)

\* C6: a converted row's notes are the secondary-usage note and the choices
\* note joined by one space, the field being absent when both are empty; the
\* Charizard row of category "fire" yields exactly the expected entry.
C6_NotesAndScenario ==
    [][(RowPending /\ Len(pokemon_list') > Len(pokemon_list))
         => /\ ("notes" \in DOMAIN NewEntry) = (C6_Notes(CurrentRow) # Empty)
            /\ "notes" \in DOMAIN NewEntry => NewEntry.notes = C6_Notes(CurrentRow)
            /\ (CurrentRow = CharizardRow /\ old_data[ci].key = tk_fire)
                 => NewEntry = [name |-> nm_Charizard, usage |-> "Special",
                                types |-> <<Fire, Dragon>>,
                                moves |-> Flare_Blitz_Dragon_Claw,
                                ability |-> ab_Blaze, completed |-> FALSE]]_vars

\* The Charizard row of category "fire" was converted, without notes.
C6_Witness ==
    /\ pc = "done"
    /\ old_data[1].key = tk_fire
    /\ old_data[1].rows[1] = CharizardRow
    /\ Len(pokemon_list) = 1
    /\ "notes" \notin DOMAIN pokemon_list[1]
    /\ pokemon_list[1].moves = Flare_Blitz_Dragon_Claw

(***************************************************************************)
(* C7                                                                      *)
(***************************************************************************)
C7_WellFormed(e) ==
    /\ e.usage \in {"Physical", "Special", "Support"}
    /\ Len(e.types) >= 1
    /\ \A i, j \in DOMAIN e.types : i # j => e.types[i] # e.types[j]
    /\ e.name # Empty
    /\ isupper(e.name[1])
    /\ e.completed = FALSE

\* C7: every accumulated entry, and every entry of the written document, has a
\* role among Physical, Special, Support, at least one type and no duplicate
\* type, a non-empty name starting with an uppercase letter, completed false.
C7_EntriesWellFormed ==
    /\ \A i \in DOMAIN pokemon_list : C7_WellFormed(pokemon_list[i])
    /\ out_file.exists =>
           \A i \in DOMAIN out_file.doc.pokemon : C7_WellFormed(out_file.doc.pokemon[i])

\* A row of category "ICE" whose secondary usage names Ice was converted as a
\* Support entry and written.
C7_Witness ==
    /\ pc = "done"
    /\ old_data[1].key = tk_ICE
    /\ get(old_data[1].rows[1], "Secondary Usage") = se_Ice_Dragon
    /\ Len(out_file.doc.pokemon) = 1
    /\ out_file.doc.pokemon[1].usage = "Support"
    /\ out_file.doc.pokemon[1].types = <<Ice, Dragon>>

(***************************************************************************)
(* C8                                                                      *)
(***************************************************************************)
\* The role the priority rules give a usage text.
C8_Role(text) ==
    IF ContainsIgnoringCase(PHYS, text) /\ ContainsIgnoringCase(SPECIAL, text) THEN None
    ELSE IF ContainsIgnoringCase(PHYS, text) THEN "Physical"
    ELSE IF ContainsIgnoringCase(SPECIAL, text) THEN "Special"
    ELSE IF ContainsIgnoringCase(UTILITY, text) \/ ContainsIgnoringCase(SUPPORT, text)
         THEN "Support"
    ELSE None

\* C8: a validly named row is converted with the role the priority rules give
\* its usage text; when they give none it is skipped, as ambiguous if the text
\* holds both a physical and a special marker and as NO USAGE otherwise.
C8_UsagePriority ==
    [][(RowPending /\ ~C1_NameRejected(get(CurrentRow, "Fire")))
         => LET text == get(CurrentRow, "Level 80") IN
            IF C8_Role(text) # None
            THEN Converted /\ NewEntry.usage = C8_Role(text)
            ELSE IF C2_BothMarkers(text)
            THEN SkippedAs("AMBIGUOUS USAGE", "skipped_ambiguous_usage")
            ELSE SkippedAs("NO USAGE", "skipped_no_usage")]_vars

\* A row with usage "Physical Support" was converted as Physical.
C8_Witness ==
    /\ pc = "done"
    /\ get(old_data[1].rows[1], "Level 80") = us_Physical_Support
    /\ Len(pokemon_list) = 1
    /\ pokemon_list[1].usage = "Physical"

(***************************************************************************)
(* C9                                                                      *)
(***************************************************************************)
\* C9: each row has exactly one of two effects, an entry appended with the
\* issues untouched or an issue appended with the entries untouched, and the
\* loop goes on to the next row; a run on a loaded source never fails, stays
\* within the rows of the source, and ends with one entry or issue per row.
C9_RowsNeverAbort ==
    /\ [][RowPending
            => /\ \/ Converted
                  \/ /\ Len(issues') = Len(issues) + 1
                     /\ SubSeq(issues', 1, Len(issues)) = issues
                     /\ pokemon_list' = pokemon_list
               /\ pc' = "loop"
               /\ ci' = ci
               /\ ri' = ri + 1]_vars
    /\ [](source.kind = "ok" => pc # "failed")
    /\ [](pc = "loop" => ri <= Len(entries) /\ ci <= Len(old_data))
    /\ [](pc = "done" =>
            Len(pokemon_list) + Len(issues) = Len(AllSourceRows(old_data)))

\* A run is over whose first row was skipped and whose second was converted.
C9_Witness ==
    /\ pc = "done"
    /\ Len(AllSourceRows(old_data)) = 2
    /\ C1_NameRejected(get(AllSourceRows(old_data)[1], "Fire"))
    /\ Len(issues) = 1
    /\ Len(pokemon_list) = 1
    /\ pokemon_list[1].name = strip(get(AllSourceRows(old_data)[2], "Fire"))

(***************************************************************************)
(* C10                                                                     *)
(***************************************************************************)
\* C10: with an unreadable source every run ends failed and the output file is
\* never written; the output file is written only once every row of a loaded
\* source has been processed, and then holds the entries accumulated.
C10_NoPartialOutput ==
    /\ [](source.kind # "ok" => out_file = NoFile /\ pc \in {"idle", "failed"})
    /\ [][out_file' # out_file
            => /\ source.kind = "ok"
               /\ pc = "loop"
               /\ RowsSeen = Len(AllSourceRows(old_data))
               /\ ci = Len(old_data)
               /\ out_file'.exists
               /\ out_file'.doc.pokemon = pokemon_list]_vars

\* Two runs on a malformed source have failed and left no output file.
C10_Witness ==
    /\ source.kind = "malformed"
    /\ runs = 2
    /\ pc = "failed"
    /\ out_file = NoFile

(***************************************************************************)
(* C11                                                                     *)
(***************************************************************************)
\* The step is a run of mongo_helper.py with the given command.
HelperStep(command) == helper_runs' = helper_runs + 1 /\ argv'[1] = command

\* C11: complete <name> <usage> <season> flips the completed flag of every
\* entry with that name and usage in the (season, "default") checklist.
C11_ToggleFlips ==
    [][HelperStep("complete")
         => \A d \in DOMAIN checklists :
                matches(checklists[d], argv'[4], "default")
                  => \A i \in DOMAIN pokemon_of(checklists[d]) :
                         elem_matches(pokemon_of(checklists[d])[i], argv'[2], argv'[3])
                           => pokemon_of(checklists'[d])[i]["completed"]
                                = ~pokemon_of(checklists[d])[i]["completed"]]_vars

(***************************************************************************)
(* C12                                                                     *)
(***************************************************************************)
\* The owner import_json reads from a document (line 212).
C12_Owner(doc) == IF "user_id" \in DOMAIN doc THEN doc["user_id"] ELSE "default"

\* Two documents have the same season and the same user_id, a missing user_id
\* being the same only as another missing one.
C12_SamePair(a, b) ==
    /\ a["season"] = b["season"]
    /\ ("user_id" \in DOMAIN a) = ("user_id" \in DOMAIN b)
    /\ "user_id" \in DOMAIN a => a["user_id"] = b["user_id"]

\* C12: after any sequence of import and add commands on an empty collection
\* no two documents have the same season and user_id.
C12_OneDocumentPerPair ==
    \A i, j \in DOMAIN checklists : i # j => ~C12_SamePair(checklists[i], checklists[j])

(***************************************************************************)
(* C13                                                                     *)
(***************************************************************************)
\* What each file is expected to be stored as: its content with every type
\* tag in upper case.
C13_Stored ==
    [christmas |->
        [season |-> "christmas_2024", user_id |-> "default", updated_at |-> 0,
         pokemon |-> <<[name |-> nm_Charizard, usage |-> us_Physical,
                        types |-> <<DRAGON_upper, ICE_upper>>, completed |-> FALSE],
                       [name |-> nm_Pikachu, usage |-> Special, completed |-> TRUE]>>],
     christmas_no_user |->
        [season |-> "christmas_2024",
         pokemon |-> <<[name |-> nm_Pikachu, usage |-> Special,
                        types |-> <<ICE_upper>>, completed |-> FALSE]>>],
     halloween_ash |-> [season |-> "halloween_2025", user_id |-> "ash"]]

\* A document with the file's season and owner is in the collection.
C13_Exists(doc) ==
    \E i \in DOMAIN checklists : matches(checklists[i], doc["season"], C12_Owner(doc))

\* The step replaces one document, which had the file's season and owner, by
\* the file as it is expected to be stored, and touches no other document.
C13_Replaced(json_file) ==
    /\ Len(checklists') = Len(checklists)
    /\ \E i \in DOMAIN checklists :
          /\ matches(checklists[i], C13_Stored[json_file]["season"],
                     C12_Owner(C13_Stored[json_file]))
          /\ checklists'[i] = C13_Stored[json_file]
          /\ \A j \in DOMAIN checklists : j # i => checklists'[j] = checklists[j]

\* C13: an import leaves the collection unchanged when the file has no season,
\* and when a document of the file's season and owner exists and the answer is
\* neither "y" nor "Y"; after "y" or "Y" that document becomes the file's
\* content with upper-cased type tags, nothing of the old document kept.
C13_ImportFrame ==
    [][HelperStep("import")
         => LET file == ImportFiles[argv'[2]] IN
            IF file = <<>> \/ "season" \notin DOMAIN file[1]
            THEN checklists' = checklists
            ELSE C13_Exists(file[1])
                   => IF stdin' \in {<<rs_y>>, <<rs_Y>>}
                      THEN C13_Replaced(argv'[2])
                      ELSE checklists' = checklists]_vars

\* The christmas checklist, imported earlier, has just been overwritten after
\* the answer "Y": the stored document is the file with upper-cased types.
C13_Witness ==
    /\ helper_runs = 3
    /\ argv = <<"import", "christmas">>
    /\ stdin = <<rs_Y>>
    /\ Len(checklists) = 1
    /\ checklists[1] = C13_Stored["christmas"]

(***************************************************************************)
(* C14                                                                     *)
(***************************************************************************)
\* The source rows load_data inserts: those that are not header rows.
C14_DataRows == SelectSeq(AllSourceRows(old_data), LAMBDA e : ~is_header_row(e))

\* C14: a run of init_db leaves the rows of every season table that already
\* exists unchanged, and every season table of a readable checklist holds one
\* row per non-header source row.
C14_RerunSkipsSeason ==
    /\ [][init_runs' = init_runs + 1
            => \A i \in DOMAIN season_tables :
                   season_tables'[i].rows = season_tables[i].rows]_vars
    /\ [](source.kind = "ok"
            => \A i \in DOMAIN season_tables :
                   Len(season_tables[i].rows) = Len(C14_DataRows))
====
